---------------------------- MODULE Spec2Model ----------------------------
(***************************************************************************)
(* Student check-in tracker (helpers.py, checkin.py, current.py).          *)
(*                                                                         *)
(* The check-in and check-out logs are append-only sheets.  helpers.py     *)
(* reads them back and reconciles them (get_students, get_attendance,      *)
(* get_corrections); checkin.py is the Streamlit page of one browser       *)
(* session, rerun from its first line on every interaction; current.py is  *)
(* the "students in the nest" page.                                        *)
(*                                                                         *)
(* Strings that the code orders or parses are modelled as what they are:   *)
(* a date or a time is the sequence of its zero-padded decimal digits, as  *)
(* strftime writes it, compared the way Python compares str (left to       *)
(* right), and pd.to_datetime(...).dt.hour reads the first two digits.     *)
(* Names are TLA+ strings; their order is the collation table StrOrd.      *)
(***************************************************************************)
EXTENDS Integers, Sequences, FiniteSets, TLC

VARIABLES
    checkins,       \* worksheet 'checkins': sequence of rows
    checkouts,      \* worksheet 'checkouts': sequence of rows
    corrections,    \* worksheet 'Form Responses 1' of the corrections sheet
    result,         \* outcome of the last helpers.py query or current.py run
    now,            \* the wall clock (America/Los_Angeles): day and time of day
    session_state,  \* st.session_state of each browser session
    page,           \* the locals of each session's last run of checkin.py
    pc,             \* where each session's script thread stands
    appended        \* history: the rows each session has passed to append_rows

logs == <<checkins, checkouts, corrections>>
sessions == <<now, session_state, page, pc, appended>>
vars == <<checkins, checkouts, corrections, result, now, session_state, page, pc,
          appended>>

---------------------------------------------------------------------------
(* Bounds of the model.                                                    *)

MaxLog == 2         \* rows of the check-in log in SpecStudents
MaxTimeline == 2    \* rows of both logs together in SpecTimeline
MaxCorrections == 2 \* rows of the corrections sheet in SpecCorrections
MaxRange == 1       \* rows of the three sheets together in SpecRange
MaxSheet == 2       \* rows of the check-in sheet in Spec
MaxCheckouts == 1   \* rows of the check-out sheet in Spec
MaxCurrent == 2     \* rows of the two sheets together in SpecCurrent

---------------------------------------------------------------------------
(* The roster sheet 'studentinfo': FullName, FirstName, LastName.          *)

names ==
    ( "Ann Lee" :> [FirstName |-> "Ann", LastName |-> "Lee"] ) @@
    ( "Bob Kim" :> [FirstName |-> "Bob", LastName |-> "Kim"] ) @@
    ( "Cy Lee"  :> [FirstName |-> "Cy",  LastName |-> "Lee"] )

FullNames == DOMAIN names

\* Python's str order on the name strings the model uses ('' sorts first).
StrOrd ==
    ( "" :> 0 ) @@ ( "Ann" :> 1 ) @@ ( "Ann Lee" :> 2 ) @@ ( "Bob" :> 3 ) @@
    ( "Bob Kim" :> 4 ) @@ ( "Cy" :> 5 ) @@ ( "Cy Lee" :> 6 ) @@
    ( "Kim" :> 7 ) @@ ( "Lee" :> 8 )

---------------------------------------------------------------------------
(* Dates and times as the strings the code writes and compares.            *)

\* The days the model's clock and logs range over (days of one month; the
\* two-digit day crosses from 09 to 10, so string order is not digit order).
Days == {9, 10}

\* Seconds since midnight of 08:10:00, 08:59:59, 09:00:00 and 10:30:00.
Clock(h, m, s) == (h * 60 + m) * 60 + s
TimesOfDay == { Clock(8, 10, 0), Clock(8, 59, 59), Clock(9, 0, 0), Clock(10, 30, 0) }

\* strftime('%Y-%m-%d') within one month: the two digits of the day.
StrftimeDate(d) == << d \div 10, d % 10 >>

\* strftime('%H:%M:%S'): six zero-padded digits.
StrftimeTime(t) ==
    LET h == t \div 3600
        m == (t \div 60) % 60
        s == t % 60
    IN  << h \div 10, h % 10, m \div 10, m % 10, s \div 10, s % 10 >>

\* Python's < on two str values (digit strings): the first differing
\* character decides, a proper prefix is smaller.
RECURSIVE StrLt(_, _)
StrLt(a, b) ==
    IF b = << >> THEN FALSE
    ELSE IF a = << >> THEN TRUE
    ELSE IF Head(a) # Head(b) THEN Head(a) < Head(b)
    ELSE StrLt(Tail(a), Tail(b))

StrLe(a, b) == a = b \/ StrLt(a, b)

\* pd.to_datetime(df['SubmitTime']).dt.hour
DtHour(s) == s[1] * 10 + s[2]

---------------------------------------------------------------------------
(* helpers.TimePeriod and the boundary hour.                               *)

MORNING == "morning"
AFTERNOON == "afternoon"
TimePeriod == { MORNING, AFTERNOON }

---------------------------------------------------------------------------
(* pandas operations on a DataFrame, a sequence of rows (records).         *)

\* Columns that hold names (ordered by StrOrd) and columns that hold parsed
\* datetimes (ordered as numbers); every other column the model sorts by
\* holds a digit string.
NameColumns == { "FullName", "FirstName", "LastName" }
DatetimeColumns == { "Date" }

\* a[col] < b[col] as pandas orders the two values.
ColLt(col, a, b) ==
    IF col \in NameColumns THEN StrOrd[a[col]] < StrOrd[b[col]]
    ELSE IF col \in DatetimeColumns THEN a[col] < b[col]
    ELSE StrLt(a[col], b[col])

\* Row a sorts before row b under the sort keys by (first key first).
RECURSIVE RowLt(_, _, _)
RowLt(by, a, b) ==
    IF by = << >> THEN FALSE
    ELSE IF ColLt(Head(by), a, b) THEN TRUE
    ELSE IF ColLt(Head(by), b, a) THEN FALSE
    ELSE RowLt(Tail(by), a, b)

\* Mutant of InsertSorted: an unstable sort, r goes before its equals.
RECURSIVE InsertSortedMutUnstable(_, _, _)
InsertSortedMutUnstable(r, s, by) ==
    IF s = << >> THEN << r >>
    ELSE IF ~RowLt(by, s[Len(s)], r) THEN
        Append(InsertSortedMutUnstable(r, SubSeq(s, 1, Len(s) - 1), by), s[Len(s)])
    ELSE Append(s, r)

\* Insert row r into the sorted sequence s after every row that is not
\* greater: the insertion step of a stable sort.
RECURSIVE InsertSorted(_, _, _)
InsertSorted(r, s, by) ==
    IF s = << >> THEN << r >>
    ELSE IF RowLt(by, r, s[Len(s)]) THEN
        Append(InsertSorted(r, SubSeq(s, 1, Len(s) - 1), by), s[Len(s)])
    ELSE Append(s, r)

\* df.sort_values(by=..., ascending=True): rows with equal keys keep their
\* order (numpy sorts fewer than 17 elements by insertion, and pandas sorts
\* by several keys with a stable lexsort).
RECURSIVE SortValues(_, _)
SortValues(df, by) ==
    IF df = << >> THEN << >>
    ELSE InsertSorted(df[Len(df)], SortValues(SubSeq(df, 1, Len(df) - 1), by), by)

\* The values of the subset columns of a row.
SubsetKey(r, subset) == [c \in subset |-> r[c]]

\* df.drop_duplicates(subset=..., keep=...), keep 'first' or 'last'.
DropDuplicates(df, subset, keep) ==
    LET kept(i) ==
            IF keep = "first"
            THEN \A j \in 1..(i - 1) : SubsetKey(df[j], subset) # SubsetKey(df[i], subset)
            ELSE \A j \in (i + 1)..Len(df) : SubsetKey(df[j], subset) # SubsetKey(df[i], subset)
        RECURSIVE from(_)
        from(i) == IF i > Len(df) THEN << >>
                   ELSE (IF kept(i) THEN << df[i] >> ELSE << >>) \o from(i + 1)
    IN  from(1)

\* The values of a sequence.
Range(df) == { df[i] : i \in DOMAIN df }

---------------------------------------------------------------------------
(* helpers.get_students                                                    *)

\* A row of the check-in or check-out sheet.  idx is the row's index label
\* in the DataFrame that conn.read returns (its position in the sheet).
StudentData(i, n, submit_date, submit_time) ==
    [idx |-> i, FullName |-> n, FirstName |-> names[n].FirstName,
     LastName |-> names[n].LastName, SubmitDate |-> submit_date,
     SubmitTime |-> submit_time]

\* The row that a submit on day d at time t (seconds) writes for student n.
Row(i, n, d, t) == StudentData(i, n, StrftimeDate(d), StrftimeTime(t))

\* The hour that separates the two periods.
BoundaryHour == 9

\* The hour test of one period (helpers.py 179-182).
InPeriodMutAt10(r, time_period) ==
    IF time_period = MORNING THEN DtHour(r.SubmitTime) < BoundaryHour + 1
    ELSE IF time_period = AFTERNOON THEN DtHour(r.SubmitTime) >= BoundaryHour + 1
    ELSE TRUE

InPeriod(r, time_period) ==
    IF time_period = MORNING THEN DtHour(r.SubmitTime) < BoundaryHour
    ELSE IF time_period = AFTERNOON THEN DtHour(r.SubmitTime) >= BoundaryHour
    ELSE TRUE

\* Lines 173-182: the rows of df of the given date whose SubmitTime falls
\* in the given period, in df's order.
PeriodFilter(df, date, time_period) ==
    LET onDate(r) == r.SubmitDate = date
        inPeriod(r) == InPeriod(r, time_period)
    IN  SelectSeq(SelectSeq(df, onDate), inPeriod)

\* Mutant of DeduplicatePeriod: keep='last'.
DeduplicatePeriodMutKeepLast(df, date, time_period) ==
    DropDuplicates(
        SortValues(PeriodFilter(df, date, time_period), << "SubmitTime" >>),
        { "FullName", "SubmitDate" }, "last")

\* Lines 173-194 applied to a DataFrame df: filter by date, filter by
\* period, sort by SubmitTime, keep the first row of each (FullName,
\* SubmitDate).
DeduplicatePeriod(df, date, time_period) ==
    DropDuplicates(
        SortValues(PeriodFilter(df, date, time_period), << "SubmitTime" >>),
        { "FullName", "SubmitDate" }, "first")

\* get_students(conn, worksheet, time_period, date): a fresh read (ttl=0) of
\* the sheet, then lines 173-194.
get_students(sheet, time_period, date) == DeduplicatePeriod(sheet, date, time_period)

---------------------------------------------------------------------------
(* SpecStudents: get_students on every check-in log of at most MaxLog      *)
(* rows, and the same steps applied once more to what it returned.         *)

NoResult == [op |-> "none"]

\* The browser sessions.
Sessions == { "s1", "s2" }

\* The times of day the clock passes through: 08:10:00, 08:59:59, 09:00:00.
ClockTimes == << Clock(8, 10, 0), Clock(8, 59, 59), Clock(9, 0, 0) >>

\* A cache slot of st.session_state that holds nothing.  A filled slot holds
\* the DataFrame and, as history, the date and period it was read for.
NoCache == [present |-> FALSE, df |-> << >>, date |-> << >>, time_period |-> "None"]

\* st.session_state of a new session: no key is set.  status[n] is the key
\* 'status-<n>' ("None" while unset) and checked[n] the value of the keys
\* 'check_by_grades_<n>' and 'check_by_lastname_<n>'.
NewSessionState ==
    [time_period |-> "None", last_date |-> << >>,
     checkedin_df |-> [p \in TimePeriod |-> NoCache],
     checkedout_df |-> [p \in TimePeriod |-> NoCache],
     status |-> [n \in FullNames |-> "None"],
     checked |-> [n \in FullNames |-> FALSE]]

\* No run of checkin.py yet.  Of a run, page keeps the locals of lines 9-64
\* (fetched: whether line 40 read the check-in sheet), whether the form was
\* submitted, the rows of new_checkins_data, the number of calls of
\* append_data_to_sheet, and the exception the run ended with.
NoPage ==
    [rendered |-> FALSE, date |-> << >>, time_period |-> "None",
     checkedin |-> NoCache, checkedout |-> NoCache, fetched |-> FALSE,
     n_current_students |-> 0, submitted |-> FALSE, new_checkins |-> << >>,
     appends |-> 0, raised |-> "none"]

InitLogs ==
    /\ checkins = << >>
    /\ checkouts = << >>
    /\ corrections = << >>
    /\ result = NoResult
    /\ now = [day |-> 9, time |-> 1]
    /\ session_state = [s \in Sessions |-> NewSessionState]
    /\ page = [s \in Sessions |-> NoPage]
    /\ pc = [s \in Sessions |-> "idle"]
    /\ appended = [s \in Sessions |-> {}]

\* A row reaches the check-in sheet (append_rows by some session).
SheetRow ==
    /\ Len(checkins) < MaxLog
    /\ \E n \in FullNames, d \in Days, t \in TimesOfDay :
           checkins' = Append(checkins, Row(Len(checkins) + 1, n, d, t))
    /\ result' = NoResult
    /\ UNCHANGED << checkouts, corrections, sessions >>

\* df = get_students(conn, 'checkins', time_period, date), and df2 the
\* filter, sort and deduplication of lines 173-194 applied to df with the
\* same date and period.
CallGetStudents ==
    /\ \E d \in Days, p \in TimePeriod :
           LET df == get_students(checkins, p, StrftimeDate(d))
           IN  result' = [op |-> "get_students", date |-> StrftimeDate(d),
                          time_period |-> p, df |-> df,
                          df2 |-> DeduplicatePeriod(df, StrftimeDate(d), p)]
    /\ UNCHANGED << logs, sessions >>

NextStudents == SheetRow \/ CallGetStudents

SpecStudents == InitLogs /\ [][NextStudents]_vars

---------------------------------------------------------------------------
(* helpers.get_attendance                                                  *)

\* A date argument that was not passed (date_start=None, date_end=None).
NoDate == 0

\* The students argument: not passed (None), or an iterable of names.
NoStudents == [given |-> FALSE, values |-> {}]
Students(S) == [given |-> TRUE, values |-> S]

\* Python's truth value of the students argument ("if students:").
Truthy(students) == students.given /\ students.values # {}

\* date_start and date_end after the defaults of lines 213-216.
DateStart(date_start, today) == IF date_start = NoDate THEN today ELSE date_start
DateEnd(date_start, date_end, today) ==
    IF date_end = NoDate THEN DateStart(date_start, today) + 1 ELSE date_end

\* df_checkins['Action'] = 'checkin' (and 'checkout'): the column added to
\* every row that was read.
WithAction(df, action) == [i \in DOMAIN df |-> df[i] @@ [Action |-> action]]

\* df[order_of_columns]: the columns that get_attendance returns (the index
\* label stays with the row).
OrderOfColumns(r) ==
    [idx |-> r.idx, LastName |-> r.LastName, FirstName |-> r.FirstName,
     Action |-> r.Action, SubmitDate |-> r.SubmitDate, SubmitTime |-> r.SubmitTime]

\* Mutant of Timeline: keep='first'.
TimelineMutKeepFirst(df_checkins, df_checkouts, students, ds, de, drop_duplicates) ==
    LET inRange(r) == /\ StrLe(StrftimeDate(ds), r.SubmitDate)
                      /\ StrLe(r.SubmitDate, StrftimeDate(de))
        isin(r) == r.FullName \in students.values
        df0 == WithAction(df_checkins, "checkin") \o WithAction(df_checkouts, "checkout")
        df1 == SelectSeq(df0, inRange)
        df2 == IF Truthy(students) THEN SelectSeq(df1, isin) ELSE df1
        df3 == SortValues(df2, << "LastName", "FirstName", "SubmitDate", "SubmitTime" >>)
        df4 == [i \in DOMAIN df3 |-> OrderOfColumns(df3[i])]
    IN  IF drop_duplicates
        THEN DropDuplicates(df4, { "LastName", "FirstName", "SubmitDate", "Action" }, "first")
        ELSE df4

\* Lines 244-290, on the two DataFrames that were read.
Timeline(df_checkins, df_checkouts, students, ds, de, drop_duplicates) ==
    LET inRange(r) == /\ StrLe(StrftimeDate(ds), r.SubmitDate)
                      /\ StrLe(r.SubmitDate, StrftimeDate(de))
        isin(r) == r.FullName \in students.values
        df0 == WithAction(df_checkins, "checkin") \o WithAction(df_checkouts, "checkout")
        df1 == SelectSeq(df0, inRange)
        df2 == IF Truthy(students) THEN SelectSeq(df1, isin) ELSE df1
        df3 == SortValues(df2, << "LastName", "FirstName", "SubmitDate", "SubmitTime" >>)
        df4 == [i \in DOMAIN df3 |-> OrderOfColumns(df3[i])]
    IN  IF drop_duplicates
        THEN DropDuplicates(df4, { "LastName", "FirstName", "SubmitDate", "Action" }, "last")
        ELSE df4

\* What a call leaves behind: the exception it raised ("none" if it
\* returned), the worksheets it read, in order, and the DataFrame returned.
Raised(exc, reads) == [raised |-> exc, reads |-> reads, df |-> << >>]
Returned(reads, df) == [raised |-> "none", reads |-> reads, df |-> df]

\* Mutant of get_attendance: the range is validated after the two reads.
get_attendanceMutLateCheck(students, date_start, date_end, drop_duplicates, today) ==
    LET ds == DateStart(date_start, today)
        de == DateEnd(date_start, date_end, today)
    IN  IF de < ds THEN Raised("ValueError", << "checkins", "checkouts" >>)
        ELSE Returned(<< "checkins", "checkouts" >>,
                      Timeline(checkins, checkouts, students, ds, de, drop_duplicates))

\* get_attendance(students, date_start, date_end, drop_duplicates), called
\* on day today.
get_attendance(students, date_start, date_end, drop_duplicates, today) ==
    LET ds == DateStart(date_start, today)
        de == DateEnd(date_start, date_end, today)
    IN  IF de < ds THEN Raised("ValueError", << >>)
        ELSE Returned(<< "checkins", "checkouts" >>,
                      Timeline(checkins, checkouts, students, ds, de, drop_duplicates))

---------------------------------------------------------------------------
(* SpecTimeline: get_attendance on every pair of logs of at most           *)
(* MaxTimeline rows together.                                              *)

\* 08:10:00 and 08:45:00.
TimelineTimes == { Clock(8, 10, 0), Clock(8, 45, 0) }

\* The students arguments tried: None, an empty list, one name.
StudentsArgs == { NoStudents, Students({}), Students({ "Ann Lee" }) }

\* The date arguments tried: None or a day.
DateArgs == Days \cup { NoDate }

\* A row reaches the check-in sheet or the check-out sheet, while the sheets
\* hold fewer than limit rows.
TimelineRow(limit) ==
    /\ Len(checkins) + Len(checkouts) + Len(corrections) < limit
    /\ \E n \in FullNames, d \in Days, t \in TimelineTimes :
           \/ /\ checkins' = Append(checkins, Row(Len(checkins) + 1, n, d, t))
              /\ UNCHANGED checkouts
           \/ /\ checkouts' = Append(checkouts, Row(Len(checkouts) + 1, n, d, t))
              /\ UNCHANGED checkins
    /\ result' = NoResult
    /\ UNCHANGED << corrections, sessions >>

\* The call's record: its arguments and what it left behind.
Call(op, students, date_start, date_end, drop_duplicates, today, out) ==
    [op |-> op, students |-> students, date_start |-> date_start,
     date_end |-> date_end, drop_duplicates |-> drop_duplicates,
     today |-> today, raised |-> out.raised, reads |-> out.reads, df |-> out.df]

\* One call on the sheets as they are (the record of a call is dropped when
\* a sheet changes).
CallGetAttendance ==
    /\ result = NoResult
    /\ \E students \in StudentsArgs, date_start \in DateArgs, date_end \in DateArgs,
          drop_duplicates \in BOOLEAN, today \in Days :
           /\ date_start # NoDate => today = date_start
           /\ result' = Call("get_attendance", students, date_start, date_end,
                             drop_duplicates, today,
                             get_attendance(students, date_start, date_end,
                                            drop_duplicates, today))
    /\ UNCHANGED << logs, sessions >>

NextTimeline == TimelineRow(MaxTimeline) \/ CallGetAttendance

SpecTimeline == InitLogs /\ [][NextTimeline]_vars

---------------------------------------------------------------------------
(* helpers.get_corrections                                                 *)

\* A missing value (NaN, None) in a DataFrame.
NaN == "<NaN>"

\* The columns of the form sheet that hold the selected student, one per
\* grade, in the sheet's column order.
student_cols == << "Choose Student (Grade 3)", "Choose Student (Grade 4)" >>

\* A row of the corrections sheet (the model's rows share one Session, Time,
\* Action and Notes, which are left out).
CorrectionRow(ts, d, g3, g4) ==
    [Timestamp |-> ts, Date |-> StrftimeDate(d),
     selected |-> ( student_cols[1] :> g3 ) @@ ( student_cols[2] :> g4 )]

\* pd.to_datetime(df['Date']): the day the string denotes.
ToDatetime(s) == s[1] * 10 + s[2]

\* pd.melt(df, id_vars=id_cols, value_vars=student_cols,
\* value_name='FullName'): for each student column in turn, one row per row
\* of df; the index is renumbered.
Melt(df) ==
    LET n == Len(df)
    IN  [ k \in 1..(n * Len(student_cols)) |->
            LET col == student_cols[((k - 1) \div n) + 1]
                r == df[((k - 1) % n) + 1]
            IN  [idx |-> k, Timestamp |-> r.Timestamp, Date |-> r.Date,
                 variable |-> col, FullName |-> r.selected[col]] ]

\* df.dropna(subset=['FullName']): the rows whose FullName is not missing.
DropNa(df) ==
    LET present(r) == r.FullName # NaN
    IN  SelectSeq(df, present)

\* Lines 346-440, on the DataFrame that was read.
Corrections(df_corrections, students, ds, de) ==
    LET parsed == [i \in DOMAIN df_corrections |->
                      [df_corrections[i] EXCEPT !.Date = ToDatetime(@)]]
        inRange(r) == /\ r.Date >= ToDatetime(StrftimeDate(ds))
                      /\ r.Date <= ToDatetime(StrftimeDate(de))
        isin(r) == r.FullName \in students.values
        filtered == SelectSeq(parsed, inRange)
        melted == DropNa(Melt(filtered))
        chosen == IF Truthy(students) THEN SelectSeq(melted, isin) ELSE melted
        final == [i \in DOMAIN chosen |->
                     [idx |-> chosen[i].idx, Timestamp |-> chosen[i].Timestamp,
                      FullName |-> chosen[i].FullName, Date |-> chosen[i].Date]]
        sorted == SortValues(final, << "Date", "FullName" >>)
    IN  [i \in DOMAIN sorted |-> [sorted[i] EXCEPT !.Date = StrftimeDate(@)]]

\* get_corrections(students, date_start, date_end), called on day today.
get_corrections(students, date_start, date_end, today) ==
    LET ds == DateStart(date_start, today)
        de == DateEnd(date_start, date_end, today)
    IN  IF de < ds THEN Raised("ValueError", << >>)
        ELSE Returned(<< "Form Responses 1" >>,
                      Corrections(corrections, students, ds, de))

---------------------------------------------------------------------------
(* SpecCorrections: get_corrections on every corrections sheet of at most  *)
(* MaxCorrections rows.  SpecRange: both range queries on sheets of at     *)
(* most MaxRange rows together.                                            *)

\* What a selected-student cell of grade 3 and of grade 4 may hold: a
\* student of the grade, an empty string, or nothing.
Grade3Cells == { "Ann Lee", "", NaN }
Grade4Cells == { "Bob Kim", "", NaN }

\* A form response reaches the corrections sheet, while the sheets hold
\* fewer than limit rows.
FormResponse(limit) ==
    /\ Len(checkins) + Len(checkouts) + Len(corrections) < limit
    /\ \E d \in Days, g3 \in Grade3Cells, g4 \in Grade4Cells :
           corrections' = Append(corrections,
                                 CorrectionRow(Len(corrections) + 1, d, g3, g4))
    /\ result' = NoResult
    /\ UNCHANGED << checkins, checkouts, sessions >>

\* One call on the sheet as it is.
CallGetCorrections ==
    /\ result = NoResult
    /\ \E students \in StudentsArgs, date_start \in DateArgs, date_end \in DateArgs,
          today \in Days :
           /\ date_start # NoDate => today = date_start
           /\ result' = Call("get_corrections", students, date_start, date_end,
                             FALSE, today,
                             get_corrections(students, date_start, date_end, today))
    /\ UNCHANGED << logs, sessions >>

NextCorrections == FormResponse(MaxCorrections) \/ CallGetCorrections

SpecCorrections == InitLogs /\ [][NextCorrections]_vars

NextRange ==
    \/ TimelineRow(MaxRange)
    \/ FormResponse(MaxRange)
    \/ CallGetAttendance
    \/ CallGetCorrections

SpecRange == InitLogs /\ [][NextRange]_vars

---------------------------------------------------------------------------
(* checkin.py: one run of the page script per interaction of a session.    *)

\* helpers.append_data_to_sheet: sh.append_rows(values=data).
append_data_to_sheetMutUnique(sheet, data) ==
    LET fresh(r) == \A i \in DOMAIN sheet :
                        \/ sheet[i].FullName # r.FullName
                        \/ sheet[i].SubmitDate # r.SubmitDate
    IN  sheet \o SelectSeq(data, fresh)

append_data_to_sheet(sheet, data) == sheet \o data

\* Lines 11-15: the period of the hour of current_time.
time_period_of(t) == IF t \div 3600 < BoundaryHour THEN MORNING ELSE AFTERNOON

\* A cache slot filled by a read for (date, time_period).
Fetched(df, date, time_period) ==
    [present |-> TRUE, df |-> df, date |-> date, time_period |-> time_period]

\* Line 64: n_current_students.
n_current_students(df_already_checkedin, df_already_checkedout) ==
    Len(df_already_checkedin) - Len(df_already_checkedout)

\* Lines 9-64 of a run that starts on day today at time t with session
\* state ss: the session state after them and the run's locals.
RunTop(ss, today, t) ==
    LET time_period == time_period_of(t)
        date == StrftimeDate(today)
        refresh_cache == ss.last_date # date
        name == time_period
        df_already_checkedin ==
            IF refresh_cache \/ ~ss.checkedin_df[name].present
            THEN Fetched(get_students(checkins, time_period, date), date, time_period)
            ELSE ss.checkedin_df[name]
        df_already_checkedout ==
            IF refresh_cache \/ ~ss.checkedout_df[name].present
            THEN Fetched(get_students(checkouts, time_period, date), date, time_period)
            ELSE ss.checkedout_df[name]
    IN  [state |-> [ss EXCEPT !.time_period = time_period,
                              !.last_date = date,
                              !.checkedin_df[name] = df_already_checkedin,
                              !.checkedout_df[name] = df_already_checkedout],
         page |-> [rendered |-> TRUE, date |-> date, time_period |-> time_period,
                   checkedin |-> df_already_checkedin,
                   checkedout |-> df_already_checkedout,
                   fetched |-> refresh_cache \/ ~ss.checkedin_df[name].present,
                   n_current_students |->
                       n_current_students(df_already_checkedin.df,
                                          df_already_checkedout.df),
                   submitted |-> FALSE, new_checkins |-> << >>,
                   appends |-> 0, raised |-> "none"]]

\* Mutant of is_already_checked_in: no student counts as checked in.
is_already_checked_inMutNever(pg, n) == FALSE

\* Lines 114 and 172: is_already_checked_in.
is_already_checked_in(pg, n) == \E i \in DOMAIN pg.checkedin.df : pg.checkedin.df[i].FullName = n

\* The names of all_names whose checkbox is checked (lines 145-148,
\* 204-207, 276-279), in the order of the page (LastName, FirstName).
CheckedNames(ss, pg) ==
    LET boxes == { n \in FullNames : ~is_already_checked_in(pg, n) /\ ss.checked[n] }
        RECURSIVE seq(_)
        seq(S) == IF S = {} THEN << >>
                  ELSE LET n == CHOOSE x \in S : TRUE
                       IN  Append(seq(S \ { n }), [FullName |-> n,
                                  FirstName |-> names[n].FirstName,
                                  LastName |-> names[n].LastName])
        sorted == SortValues(seq(boxes), << "LastName", "FirstName" >>)
    IN  [i \in DOMAIN sorted |-> sorted[i].FullName]

\* A page load or a rerun (st.rerun) of a session: a run without a submit.
PageLoad(s) ==
    /\ pc[s] \in { "idle", "rerun" }
    /\ LET run == RunTop(session_state[s], now.day, ClockTimes[now.time])
       IN  /\ session_state' = [session_state EXCEPT ![s] = run.state]
           /\ page' = [page EXCEPT ![s] = run.page]
    /\ pc' = [pc EXCEPT ![s] = "idle"]
    /\ UNCHANGED << logs, result, now, appended >>

\* The students whose checkboxes the model's users click.
Clicked == { "Ann Lee" }

\* The user clicks the enabled checkbox of student n: the callback
\* helpers.sync_main_state copies the widget's new value to 'status-<n>' and
\* to both widget keys (its st.rerun is a no-op in a callback), then the
\* script runs.
Toggle(s, n) ==
    /\ pc[s] = "idle"
    /\ page[s].rendered
    /\ ~is_already_checked_in(page[s], n)
    /\ LET new_value == ~session_state[s].checked[n]
           synced == [session_state[s] EXCEPT
                         !.status[n] = IF new_value THEN "True" ELSE "False",
                         !.checked[n] = new_value]
           run == RunTop(synced, now.day, ClockTimes[now.time])
       IN  /\ session_state' = [session_state EXCEPT ![s] = run.state]
           /\ page' = [page EXCEPT ![s] = run.page]
    /\ UNCHANGED << logs, result, now, pc, appended >>

\* Lines 262-267: the selection flags that are set are cleared.
ClearStatus(ss) ==
    [ss EXCEPT !.status = [n \in FullNames |->
                              IF ss.status[n] = "True" THEN "False" ELSE ss.status[n]]]

\* The run pg with its submit recorded.
SubmittedPage(pg, new_checkins_data, appends, raised) ==
    [pg EXCEPT !.submitted = TRUE, !.new_checkins = new_checkins_data,
               !.appends = appends, !.raised = raised]

\* Mutant of SubmitBody: the cached DataFrame is extended before the append.
SubmitBodyMutCacheFirst(ss, pg, sheet, new_checkins_data, ok) ==
    LET cleared == ClearStatus(ss)
        cached == [cleared EXCEPT !.checkedin_df[pg.time_period].df =
                                      pg.checkedin.df \o new_checkins_data]
    IN  IF new_checkins_data = << >>
        THEN [sheet |-> sheet, state |-> cleared, rerun |-> FALSE,
              page |-> SubmittedPage(pg, << >>, 0, "NameError")]
        ELSE IF ~ok
        THEN [sheet |-> sheet, state |-> cached, rerun |-> FALSE,
              page |-> SubmittedPage(pg, new_checkins_data, 1, "APIError")]
        ELSE [sheet |-> append_data_to_sheet(sheet, new_checkins_data),
              state |-> cached, rerun |-> TRUE,
              page |-> SubmittedPage(pg, new_checkins_data, 1, "none")]

\* Mutant of SubmitBody: the cached DataFrame is not extended (no lines
\* 329-334).
SubmitBodyMutNoCache(ss, pg, sheet, new_checkins_data, ok) ==
    LET cleared == ClearStatus(ss)
    IN  IF new_checkins_data = << >>
        THEN [sheet |-> sheet, state |-> cleared, rerun |-> FALSE,
              page |-> SubmittedPage(pg, << >>, 0, "NameError")]
        ELSE IF ~ok
        THEN [sheet |-> sheet, state |-> cleared, rerun |-> FALSE,
              page |-> SubmittedPage(pg, new_checkins_data, 1, "APIError")]
        ELSE [sheet |-> append_data_to_sheet(sheet, new_checkins_data),
              state |-> cleared, rerun |-> TRUE,
              page |-> SubmittedPage(pg, new_checkins_data, 1, "none")]

\* Lines 262-348 of a run with submitted = True, after lines 9-260 left the
\* session state ss and the locals pg: the sheet, the session state and the
\* run afterwards, and whether st.rerun() was reached.  ok tells whether
\* append_rows succeeds.
\*   - No name checked: nothing is appended, and line 344 reads
\*     df_new_checkins, which was never assigned (NameError).
\*   - append_rows raises (line 321): the exception leaves the script, lines
\*     329-348 are not run.
\*   - Otherwise the rows are appended to the sheet and to the cached
\*     DataFrame, and the page is rerun.
SubmitBody(ss, pg, sheet, new_checkins_data, ok) ==
    LET cleared == ClearStatus(ss)
    IN  IF new_checkins_data = << >>
        THEN [sheet |-> sheet, state |-> cleared, rerun |-> FALSE,
              page |-> SubmittedPage(pg, << >>, 0, "NameError")]
        ELSE IF ~ok
        THEN [sheet |-> sheet, state |-> cleared, rerun |-> FALSE,
              page |-> SubmittedPage(pg, new_checkins_data, 1, "APIError")]
        ELSE [sheet |-> append_data_to_sheet(sheet, new_checkins_data),
              state |-> [cleared EXCEPT !.checkedin_df[pg.time_period].df =
                                            pg.checkedin.df \o new_checkins_data],
              rerun |-> TRUE,
              page |-> SubmittedPage(pg, new_checkins_data, 1, "none")]

\* The user presses 'Check In': the script runs with submitted = True, lines
\* 9-260 and then lines 262-348.  The append succeeds or fails.
Submit(s) ==
    /\ pc[s] = "idle"
    /\ page[s].rendered
    /\ \E ok \in BOOLEAN :
        LET run == RunTop(session_state[s], now.day, ClockTimes[now.time])
            chosen == CheckedNames(run.state, run.page)
            submit_time == StrftimeTime(ClockTimes[now.time])
            new_checkins_data ==
                [i \in DOMAIN chosen |->
                    StudentData(Len(checkins) + i, chosen[i], run.page.date, submit_time)]
            out == SubmitBody(run.state, run.page, checkins, new_checkins_data, ok)
        IN  /\ Len(checkins) + Len(chosen) <= MaxSheet
            /\ checkins' = out.sheet
            /\ session_state' = [session_state EXCEPT ![s] = out.state]
            /\ page' = [page EXCEPT ![s] = out.page]
            /\ appended' = [appended EXCEPT ![s] =
                               IF out.rerun THEN @ \cup Range(new_checkins_data) ELSE @]
            /\ pc' = [pc EXCEPT ![s] = IF out.rerun THEN "rerun" ELSE "idle"]
    /\ UNCHANGED << checkouts, corrections, result, now >>

\* The clock moves on to the next time of the day.
Tick ==
    /\ now.time < Len(ClockTimes)
    /\ now' = [now EXCEPT !.time = @ + 1]
    /\ UNCHANGED << logs, result, session_state, page, pc, appended >>

\* The clock moves on to the first time of the next day.
Midnight ==
    /\ now.time = Len(ClockTimes)
    /\ now.day + 1 \in Days
    /\ now' = [day |-> now.day + 1, time |-> 1]
    /\ UNCHANGED << logs, result, session_state, page, pc, appended >>

\* A student is checked out (the check-out page appends a row to the
\* check-out sheet).
CheckOut(n) ==
    /\ Len(checkouts) < MaxCheckouts
    /\ checkouts' = append_data_to_sheet(checkouts,
                        << Row(Len(checkouts) + 1, n, now.day, ClockTimes[now.time]) >>)
    /\ UNCHANGED << checkins, corrections, result, sessions >>

\* Spec: two sessions on the check-in page during one day.
Next ==
    \/ \E s \in Sessions : PageLoad(s)
    \/ \E s \in Sessions, n \in Clicked : Toggle(s, n)
    \/ \E s \in Sessions : Submit(s)
    \/ \E n \in Clicked : CheckOut(n)
    \/ Tick

Spec == InitLogs /\ [][Next]_vars

\* SpecFair: Spec with the scheduling of the browser: a session that can go
\* on running the page (a rerun that is due, a click on a checkbox) does so.
SpecFair ==
    /\ Spec
    /\ \A s \in Sessions : WF_vars(PageLoad(s))
    /\ \A s \in Sessions : WF_vars(\E n \in Clicked : Toggle(s, n))

\* SpecDays: one session on the check-in page from one day to the next.
NextDays ==
    \/ PageLoad("s1")
    \/ \E n \in Clicked : Toggle("s1", n)
    \/ Submit("s1")
    \/ \E n \in Clicked : CheckOut(n)
    \/ Tick
    \/ Midnight

SpecDays == InitLogs /\ [][NextDays]_vars

---------------------------------------------------------------------------
(* current.py: the page of the students present right now.                 *)

\* The parameters of helpers.create_connection and of helpers.get_students.
create_connection_params == { "name", "cache_ttl_secs" }
get_students_params == { "conn", "worksheet", "time_period", "date" }

\* A Python call with keyword arguments kwargs to a function with the
\* parameters params raises TypeError unless every keyword is a parameter.
Accepts(params, kwargs) == kwargs \subseteq params

\* Lines 73-81: the rows of df_checkedin whose FullName is not a FullName of
\* df_checkedout.
df_current(df_checkedin, df_checkedout) ==
    LET out(r) == \E i \in DOMAIN df_checkedout : df_checkedout[i].FullName = r.FullName
        stays(r) == ~out(r)
    IN  SelectSeq(df_checkedin, stays)

\* One run of current.py on day today at time t: what the page lists under
\* 'Students at the Nest Right Now'.
current(today, t) ==
    LET date == StrftimeDate(today)
        current_timetime_period == time_period_of(t)
    IN  IF ~Accepts(create_connection_params, { "name", "conn_type", "cache_ttl_secs" })
        THEN Raised("TypeError", << >>)
        ELSE IF ~Accepts(get_students_params,
                         { "date", "time_period", "conn", "cache_ttl_secs" })
        THEN Raised("TypeError", << >>)
        ELSE Returned(<< "checkins", "checkouts" >>,
                      df_current(get_students(checkins, current_timetime_period, date),
                                 get_students(checkouts, current_timetime_period, date)))

\* A row reaches the check-in sheet or the check-out sheet, while the two
\* sheets hold fewer than MaxCurrent rows.
PresenceRow ==
    /\ Len(checkins) + Len(checkouts) < MaxCurrent
    /\ \E n \in FullNames, d \in Days, t \in TimesOfDay :
           \/ /\ checkins' = Append(checkins, Row(Len(checkins) + 1, n, d, t))
              /\ UNCHANGED checkouts
           \/ /\ checkouts' = Append(checkouts, Row(Len(checkouts) + 1, n, d, t))
              /\ UNCHANGED checkins
    /\ result' = NoResult
    /\ UNCHANGED << corrections, sessions >>

\* The page is opened on the sheets as they are.
OpenCurrent ==
    /\ result = NoResult
    /\ \E today \in Days, i \in DOMAIN ClockTimes :
           LET out == current(today, ClockTimes[i])
           IN  result' = [op |-> "current", today |-> today, time |-> ClockTimes[i],
                          raised |-> out.raised, reads |-> out.reads, df |-> out.df]
    /\ UNCHANGED << logs, sessions >>

NextCurrent == PresenceRow \/ OpenCurrent

SpecCurrent == InitLogs /\ [][NextCurrent]_vars

---------------------------------------------------------------------------
(* Claims about get_students, stated on the clock values of the rows       *)
(* (seconds since midnight), not on their strings.                         *)

\* The time a SubmitTime string denotes, in seconds since midnight.
SecondsOf(s) ==
    ((s[1] * 10 + s[2]) * 60 + (s[3] * 10 + s[4])) * 60 + (s[5] * 10 + s[6])

\* The period a clock time falls in: MORNING before 09:00:00.
PeriodOfSeconds(t) == IF t < 9 * 3600 THEN MORNING ELSE AFTERNOON

\* The rows of the check-in log of student n on the queried date and period.
Candidates(n) ==
    { r \in Range(checkins) :
        /\ r.FullName = n
        /\ r.SubmitDate = result.date
        /\ PeriodOfSeconds(SecondsOf(r.SubmitTime)) = result.time_period }

\* C1: get_students returns, for each student with at least one row of the
\* date in the period, exactly one row, a row of the log with the earliest
\* SubmitTime among that student's rows, and no row for any other student.
C1_FirstWins ==
    result.op = "get_students" =>
        \A n \in FullNames :
            LET got == { i \in DOMAIN result.df : result.df[i].FullName = n }
            IN  IF Candidates(n) = {} THEN got = {}
                ELSE /\ Cardinality(got) = 1
                     /\ \A i \in got :
                          /\ result.df[i] \in Candidates(n)
                          /\ \A r \in Candidates(n) :
                               SecondsOf(result.df[i].SubmitTime) <= SecondsOf(r.SubmitTime)

\* A student has two rows in the period, the later one first in the sheet,
\* and the earlier one is the row returned.
C1_Witness ==
    /\ result.op = "get_students"
    /\ \E n \in FullNames : \E a, b \in Candidates(n) :
          /\ a.idx < b.idx
          /\ SecondsOf(a.SubmitTime) > SecondsOf(b.SubmitTime)
          /\ b \in Range(result.df)
          /\ a \notin Range(result.df)

\* C6: every row of the log passes the filter of exactly one period on its
\* date, MORNING when its hour is below 9 and AFTERNOON otherwise.
C6_PeriodPartition ==
    \A r \in Range(checkins) :
        LET inM == r \in Range(PeriodFilter(checkins, r.SubmitDate, MORNING))
            inA == r \in Range(PeriodFilter(checkins, r.SubmitDate, AFTERNOON))
        IN  /\ inM # inA
            /\ inM <=> (SecondsOf(r.SubmitTime) \div 3600 < 9)

\* A row of 08:59:59 and a row of 09:00:00 on one date: the morning read
\* returns the first and the afternoon read the second.
C6_Witness ==
    /\ result.op = "get_students"
    /\ result.time_period = MORNING
    /\ \E a, b \in Range(checkins) :
          /\ a.SubmitDate = result.date /\ b.SubmitDate = result.date
          /\ a.SubmitTime = StrftimeTime(Clock(8, 59, 59))
          /\ b.SubmitTime = StrftimeTime(Clock(9, 0, 0))
          /\ a \in Range(result.df) /\ b \notin Range(result.df)
          /\ b \in Range(get_students(checkins, AFTERNOON, result.date))

---------------------------------------------------------------------------
(* Claims about get_attendance, stated on the days and clock values of     *)
(* the rows, not on their strings.                                         *)

\* The day a SubmitDate string denotes.
DayOf(s) == s[1] * 10 + s[2]

\* Every row of the two logs, tagged with the log it is in.
Tagged ==
    { [log |-> "checkin", row |-> checkins[i]] : i \in DOMAIN checkins } \cup
    { [log |-> "checkout", row |-> checkouts[i]] : i \in DOMAIN checkouts }

\* The output row that stands for a tagged row of a log.
OutputOf(t) ==
    [idx |-> t.row.idx, LastName |-> t.row.LastName, FirstName |-> t.row.FirstName,
     Action |-> t.log, SubmitDate |-> t.row.SubmitDate, SubmitTime |-> t.row.SubmitTime]

\* Row a does not come after row b in ascending (LastName, FirstName,
\* SubmitDate, SubmitTime).
TimelineLe(a, b) ==
    LET ka == << StrOrd[a.LastName], StrOrd[a.FirstName], DayOf(a.SubmitDate),
                 SecondsOf(a.SubmitTime) >>
        kb == << StrOrd[b.LastName], StrOrd[b.FirstName], DayOf(b.SubmitDate),
                 SecondsOf(b.SubmitTime) >>
    IN  \/ ka = kb
        \/ \E k \in 1..4 : ka[k] < kb[k] /\ \A j \in 1..(k - 1) : ka[j] = kb[j]

\* The rows that a call returns are exactly the rows Selected, each once,
\* in ascending order.
ExactlyInOrder(df, Selected) ==
    /\ Range(df) = { OutputOf(t) : t \in Selected }
    /\ Len(df) = Cardinality(Selected)
    /\ \A i, j \in DOMAIN df : i < j => TimelineLe(df[i], df[j])

\* The call that result records returned without drop_duplicates.
ReturnedAll ==
    /\ result.op = "get_attendance"
    /\ result.raised = "none"
    /\ ~result.drop_duplicates

\* The tagged rows in the call's date range, both ends included.
InRange ==
    LET ds == DateStart(result.date_start, result.today)
        de == DateEnd(result.date_start, result.date_end, result.today)
    IN  { t \in Tagged : ds <= DayOf(t.row.SubmitDate) /\ DayOf(t.row.SubmitDate) <= de }

\* C10: without drop_duplicates get_attendance returns exactly the rows of
\* the two logs in the date range (both ends included) whose FullName is in
\* students when students is given, each once, in ascending (LastName,
\* FirstName, SubmitDate, SubmitTime).
C10_TimelineSelection ==
    ReturnedAll =>
        ExactlyInOrder(result.df,
            { t \in InRange :
                result.students.given => t.row.FullName \in result.students.values })

\* The same statement with the name filter applied only when students is
\* given and not empty (a supporting check of the rest of C10).
TimelineSelectionNonEmpty ==
    ReturnedAll =>
        ExactlyInOrder(result.df,
            { t \in InRange :
                Truthy(result.students) => t.row.FullName \in result.students.values })

\* The group of an output row under drop_duplicates.
Group(r) == << r.LastName, r.FirstName, r.SubmitDate, r.Action >>

\* C5: with drop_duplicates get_attendance returns, for each (LastName,
\* FirstName, SubmitDate, Action) group of the rows it retains without
\* drop_duplicates, exactly one row, a row of the group with the group's
\* latest SubmitTime, and nothing else.
C5_LastWins ==
    (result.op = "get_attendance" /\ result.raised = "none" /\ result.drop_duplicates) =>
        LET retained == Range(get_attendance(result.students, result.date_start,
                                             result.date_end, FALSE, result.today).df)
        IN  /\ Range(result.df) \subseteq retained
            /\ \A r \in retained :
                 LET got == { i \in DOMAIN result.df : Group(result.df[i]) = Group(r) }
                 IN  /\ Cardinality(got) = 1
                     /\ \A i \in got :
                          SecondsOf(result.df[i].SubmitTime) >= SecondsOf(r.SubmitTime)

\* A group holds a row of 08:10 and a row of 08:45, the later one first in
\* the sheet, and only the 08:45 row is returned.
C5_Witness ==
    /\ result.op = "get_attendance" /\ result.raised = "none" /\ result.drop_duplicates
    /\ Len(result.df) = 1
    /\ result.df[1].SubmitTime = StrftimeTime(Clock(8, 45, 0))
    /\ result.df[1].idx = 1
    /\ Len(checkins) = 2
    /\ checkins[2].SubmitTime = StrftimeTime(Clock(8, 10, 0))
    /\ Group(OutputOf([log |-> "checkin", row |-> checkins[2]])) = Group(result.df[1])

---------------------------------------------------------------------------
(* Claims about the range queries and about get_corrections.               *)

\* The call that result records was made with date_end before date_start.
EndBeforeStart ==
    /\ result.op \in { "get_attendance", "get_corrections" }
    /\ result.date_end # NoDate
    /\ result.date_end < DateStart(result.date_start, result.today)

\* C7: with date_end before date_start, get_attendance and get_corrections
\* raise the invalid-range error before any sheet is read and return
\* nothing.
C7_RangeFailsFast ==
    EndBeforeStart =>
        /\ result.raised = "ValueError"
        /\ result.reads = << >>
        /\ result.df = << >>

\* A call with date_end before date_start was made on a sheet that holds a
\* row, which an accepted call would have read.
C7_Witness ==
    /\ EndBeforeStart
    /\ result.raised = "ValueError"
    /\ Len(checkins) + Len(checkouts) + Len(corrections) > 0

\* The rows of the corrections sheet in the call's date range.
CorrectionsInRange ==
    LET ds == DateStart(result.date_start, result.today)
        de == DateEnd(result.date_start, result.date_end, result.today)
    IN  { r \in Range(corrections) : ds <= DayOf(r.Date) /\ DayOf(r.Date) <= de }

\* C8: for every correction row in the date range get_corrections (called
\* without a students filter) emits exactly one record per selected-student
\* column that is not empty and none for a column that holds an empty
\* string or a missing value; no record has an empty FullName.
C8_CorrectionMelt ==
    (result.op = "get_corrections" /\ result.raised = "none" /\ ~result.students.given) =>
        /\ \A r \in CorrectionsInRange :
             LET of_r == { i \in DOMAIN result.df : result.df[i].Timestamp = r.Timestamp }
                 filled == { c \in Range(student_cols) : r.selected[c] \notin { "", NaN } }
             IN  /\ Cardinality(of_r) = Cardinality(filled)
                 /\ \A c \in filled :
                      Cardinality({ i \in of_r : result.df[i].FullName = r.selected[c] }) = 1
        /\ \A i \in DOMAIN result.df : result.df[i].FullName \notin { "", NaN }

\* The same statement for the cells that hold a student or a missing value
\* (a supporting check: only the empty string escapes dropna).
CorrectionMeltMissingOnly ==
    (/\ result.op = "get_corrections" /\ result.raised = "none" /\ ~result.students.given
     /\ \A r \in Range(corrections) : \A c \in Range(student_cols) : r.selected[c] # "")
    => C8_CorrectionMelt

---------------------------------------------------------------------------
(* Claims about the pages.                                                 *)

\* The FullNames of the rows of a DataFrame.
NamesOf(df) == { df[i].FullName : i \in DOMAIN df }

\* (supporting C2) The expression of lines 73-81 is the set difference: on
\* every pair of sheets, for every date and period, the names of df_current
\* are the names of the deduplicated check-ins that are not names of the
\* deduplicated check-outs.
CurrentDifference ==
    \A d \in Days, p \in { MORNING, AFTERNOON } :
        LET df_checkedin == get_students(checkins, p, StrftimeDate(d))
            df_checkedout == get_students(checkouts, p, StrftimeDate(d))
        IN  NamesOf(df_current(df_checkedin, df_checkedout))
                = NamesOf(df_checkedin) \ NamesOf(df_checkedout)

\* C2: whenever the page of the students present right now has been opened,
\* it lists exactly the students of the deduplicated check-in set of the
\* current date and period that are not in the deduplicated check-out set of
\* that date and period.
C2_CurrentPresence ==
    result.op = "current" =>
        LET date == StrftimeDate(result.today)
            p == time_period_of(result.time)
        IN  NamesOf(result.df) = NamesOf(get_students(checkins, p, date))
                                     \ NamesOf(get_students(checkouts, p, date))

\* The rows that both sessions appended for one student, date and period.
RacePairs ==
    { pr \in appended["s1"] \X appended["s2"] :
        /\ pr[1].FullName = pr[2].FullName
        /\ pr[1].SubmitDate = pr[2].SubmitDate
        /\ \E p \in { MORNING, AFTERNOON } : InPeriod(pr[1], p) /\ InPeriod(pr[2], p) }

\* C3: every row a session appended is in the check-in log as it was
\* appended, and when two sessions have appended a row for the same student,
\* date and period, a fresh get_students for that date and period returns
\* exactly one row for the student, with the earliest SubmitTime of the
\* student's rows of that date and period.
C3_AppendRace ==
    /\ \A s \in Sessions : \A r \in appended[s] :
           r.idx \in DOMAIN checkins /\ checkins[r.idx] = r
    /\ \A pr \in RacePairs :
           LET p == CHOOSE q \in { MORNING, AFTERNOON } : InPeriod(pr[1], q)
               df == get_students(checkins, p, pr[1].SubmitDate)
               mine == { i \in DOMAIN df : df[i].FullName = pr[1].FullName }
           IN  /\ Cardinality(mine) = 1
               /\ \A i \in mine : \A j \in DOMAIN checkins :
                      ( /\ checkins[j].FullName = pr[1].FullName
                        /\ checkins[j].SubmitDate = pr[1].SubmitDate
                        /\ InPeriod(checkins[j], p) )
                      => StrLe(df[i].SubmitTime, checkins[j].SubmitTime)

\* Witness of C3: the two sessions appended rows for the same student, date
\* and period at different times, and both rows are in the log.
C3_Witness ==
    \E pr \in RacePairs :
        /\ pr[1].SubmitTime # pr[2].SubmitTime
        /\ Len(checkins) >= 2

\* The snapshot in a cache slot was fetched for the date and the period of
\* the page that uses it.
FetchedFor(slot, pg) == slot.date = pg.date /\ slot.time_period = pg.time_period

\* C4: every check-in and check-out snapshot that a run of the check-in page
\* uses was fetched for the date and the period of that run.
C4_CacheFresh ==
    \A s \in Sessions :
        page[s].rendered =>
            /\ FetchedFor(page[s].checkedin, page[s])
            /\ FetchedFor(page[s].checkedout, page[s])

\* (supporting C4) A snapshot is never used for another period than the one
\* it was fetched for.
CachePeriodKept ==
    \A s \in Sessions :
        page[s].rendered =>
            /\ page[s].checkedin.time_period = page[s].time_period
            /\ page[s].checkedout.time_period = page[s].time_period

---------------------------------------------------------------------------
(* Claims about the submit handler and the session cache.                  *)

\* The FullNames of the rows of new_checkins_data of the last run of s.
NewNames(s) == NamesOf(page[s].new_checkins)

\* The check-in snapshot in st.session_state of s for the period of its last
\* run.
Cached(s) == session_state[s].checkedin_df[page[s].time_period]

\* C11: when the append of a submit failed, append_data_to_sheet was called
\* once in that run, the run ended with the exception and without a rerun,
\* the session's cached check-in DataFrame is the one the run started with,
\* and the session does not count the rows as appended.
C11_NoRetry ==
    \A s \in Sessions :
        page[s].raised = "APIError" =>
            /\ page[s].appends = 1
            /\ pc[s] = "idle"
            /\ Cached(s) = page[s].checkedin
            /\ Range(page[s].new_checkins) \cap appended[s] = {}

\* Witness of C11: a submit of one checked student whose append failed.
C11_Witness ==
    \E s \in Sessions :
        /\ page[s].submitted
        /\ page[s].raised = "APIError"
        /\ NewNames(s) # {}

\* The rows of the check-in log for the date and period of the last run of
\* s whose student is not in the session's cached check-in DataFrame, while
\* the clock is still in that date and period.
Unseen(s) ==
    { i \in DOMAIN checkins :
        /\ page[s].rendered
        /\ page[s].date = StrftimeDate(now.day)
        /\ page[s].time_period = time_period_of(ClockTimes[now.time])
        /\ checkins[i].SubmitDate = page[s].date
        /\ InPeriod(checkins[i], page[s].time_period)
        /\ checkins[i].FullName \notin NamesOf(Cached(s).df) }

\* C12: a check-in row in the log for the date and period of a session's
\* page that is not in the session's cached check-in DataFrame eventually
\* is in it, or the date or the period changes.
C12_BoundedStaleness ==
    \A s \in Sessions : (Unseen(s) # {}) ~> (Unseen(s) = {})

\* (supporting C12) A run reads the check-in sheet only when the date is new
\* to the session or the period's cache key is not set: a run that finds the
\* key set on the date of the session's previous run serves what is cached.
NoTimeToLive ==
    [][\A s \in Sessions :
          ( /\ page'[s] # page[s]
            /\ session_state[s].last_date = StrftimeDate(now.day)
            /\ session_state[s].checkedin_df[page'[s].time_period].present )
          => ~page'[s].fetched]_vars

\* C13: the number shown as '# of kids currently in the nest' is the number
\* of students in the run's checked-in set that are not in its checked-out
\* set (so it is never negative).
C13_CurrentCount ==
    \A s \in Sessions :
        page[s].rendered =>
            page[s].n_current_students =
                Cardinality(NamesOf(page[s].checkedin.df) \ NamesOf(page[s].checkedout.df))

\* (supporting C13) The number is that count whenever every student of the
\* checked-out set is in the checked-in set.
CurrentCountOfCheckedIn ==
    \A s \in Sessions :
        ( /\ page[s].rendered
          /\ NamesOf(page[s].checkedout.df) \subseteq NamesOf(page[s].checkedin.df) )
        => page[s].n_current_students =
               Cardinality(NamesOf(page[s].checkedin.df) \ NamesOf(page[s].checkedout.df))

\* The period of a row's SubmitTime.
PeriodOfRow(r) == IF InPeriod(r, MORNING) THEN MORNING ELSE AFTERNOON

\* C14: no run puts a student of its checked-in set into new_checkins_data,
\* and the rows a session has appended hold at most one row per student,
\* date and period.
C14_OncePerStudent ==
    \A s \in Sessions :
        /\ \A n \in NewNames(s) : ~is_already_checked_in(page[s], n)
        /\ \A r1, r2 \in appended[s] :
               ( /\ r1.FullName = r2.FullName
                 /\ r1.SubmitDate = r2.SubmitDate
                 /\ PeriodOfRow(r1) = PeriodOfRow(r2) )
               => r1 = r2

\* Witness of C14: a session that appended a row for a student submits again
\* on the same date and period with the student's checkbox still checked,
\* and the student is left out of new_checkins_data.
C14_Witness ==
    \E s \in Sessions : \E r \in appended[s] :
        /\ page[s].submitted
        /\ page[s].new_checkins = << >>
        /\ page[s].date = r.SubmitDate
        /\ page[s].time_period = PeriodOfRow(r)
        /\ session_state[s].checked[r.FullName]
        /\ is_already_checked_in(page[s], r.FullName)

\* After a submit whose append succeeded (the rerun is due): the students of
\* the appended rows are in the cached check-in DataFrame of the period and
\* their selection flags are False.
WritesCached(s) ==
    pc[s] = "rerun" =>
        \A n \in NewNames(s) :
            /\ n \in NamesOf(Cached(s).df)
            /\ session_state[s].status[n] = "False"

\* The rerun after a submit, on the date and period of the submit: the check-
\* in sheet is not read, the students of the appended rows are shown as
\* already checked in and their selection flags are False.
RerunShowsWrites(s) ==
    ( /\ pc[s] = "rerun"
      /\ pc'[s] = "idle"
      /\ page'[s].date = page[s].date
      /\ page'[s].time_period = page[s].time_period )
    => /\ ~page'[s].fetched
       /\ \A n \in NewNames(s) :
              /\ is_already_checked_in(page'[s], n)
              /\ session_state'[s].status[n] = "False"

\* C15: after a submit whose append succeeded every student of the appended
\* rows is in the session's cached checked-in set of the period with the
\* selection flag False, and the next run on the same date and period shows
\* each of them as already checked in without reading the log.
C15_ReadYourWrites ==
    /\ [](\A s \in Sessions : WritesCached(s))
    /\ [][\A s \in Sessions : RerunShowsWrites(s)]_vars

\* Witness of C15: the rerun after a submit has taken place on the date and
\* period of the submit, and shows an appended student as already checked in
\* from the cache.
C15_Witness ==
    \E s \in Sessions : \E r \in appended[s] :
        /\ pc[s] = "idle"
        /\ page[s].rendered
        /\ ~page[s].submitted
        /\ ~page[s].fetched
        /\ page[s].date = r.SubmitDate
        /\ page[s].time_period = PeriodOfRow(r)
        /\ is_already_checked_in(page[s], r.FullName)
        /\ session_state[s].status[r.FullName] = "False"

\* C16: a submit with no student selected ends without an exception and
\* with the rerun of the page due.
C16_EmptySubmit ==
    \A s \in Sessions :
        (page[s].submitted /\ page[s].new_checkins = << >>) =>
            /\ page[s].raised = "none"
            /\ pc[s] = "rerun"

\* (supporting C16) A submit with no student selected calls no append and
\* leaves the session's cached check-in DataFrame as the run found it.
EmptySubmitWritesNothing ==
    \A s \in Sessions :
        (page[s].submitted /\ page[s].new_checkins = << >>) =>
            /\ page[s].appends = 0
            /\ Cached(s) = page[s].checkedin

=============================================================================
